---- MODULE Spec2Model ----
(***************************************************************************)
(* FastSiteGenerator (fast_github_pages_generator.py): the constructor,    *)
(* generate_site and the helpers it calls, over an explicit file system.   *)
(*                                                                         *)
(* A file name is a sequence of dot-free chunks and "." separators, so     *)
(* "a.md" is <<"a", ".", "md">> and ".git" is <<".", "git">>.  A path is a *)
(* sequence of names, relative to the working directory; <<>> is ".".  A   *)
(* link (href) is a sequence of segments, joined by "/" in the program.    *)
(***************************************************************************)
EXTENDS Integers, Sequences, FiniteSets, TLC

VARIABLES source_dir, output_dir, fs, fs0, pc, walk, root_path, files,
          visited, attempted, failed, lfailed, writes,
          path_a, path_b, root_a, root_b, trail

\* the state of a site generation
site == <<source_dir, output_dir, fs, fs0, pc, walk, root_path, files,
          visited, attempted, failed, lfailed, writes>>

\* the arguments and results of the path helpers called on their own
pure == <<path_a, path_b, root_a, root_b, trail>>

vars == <<source_dir, output_dir, fs, fs0, pc, walk, root_path, files,
          visited, attempted, failed, lfailed, writes,
          path_a, path_b, root_a, root_b, trail>>

----------------------------------------------------------------------------
\* Bounds of the model
MaxNodes == 3
MaxDepth == 3

----------------------------------------------------------------------------
\* str and pathlib helpers

\* str.lower(), chunk by chunk
LowerChunk(c) == IF c = "MD" THEN "md" ELSE IF c = "TXT" THEN "txt" ELSE c

Lower(name) == [i \in 1..Len(name) |-> LowerChunk(name[i])]

\* str.startswith(".")
StartsWithDot(name) == Len(name) > 0 /\ name[1] = "."

\* str.endswith(suf)
EndsWith(name, suf) ==
    /\ Len(name) >= Len(suf)
    /\ SubSeq(name, Len(name) - Len(suf) + 1, Len(name)) = suf

\* str.rfind("."), 1-based, 0 when there is no dot
RFindDot(name) ==
    LET ds == {i \in 1..Len(name) : name[i] = "."}
    IN  IF ds = {} THEN 0 ELSE CHOOSE i \in ds : \A j \in ds : j <= i

\* PurePath.suffix: the last dot and what follows, unless the dot is first or last
Suffix(name) ==
    LET i == RFindDot(name)
    IN  IF 1 < i /\ i < Len(name) THEN SubSeq(name, i, Len(name)) ELSE <<>>

\* PurePath.stem
Stem(name) ==
    LET i == RFindDot(name)
    IN  IF 1 < i /\ i < Len(name) THEN SubSeq(name, 1, i - 1) ELSE name

\* PurePath.parent and PurePath.parents
Parent(p) == IF p = <<>> THEN <<>> ELSE SubSeq(p, 1, Len(p) - 1)

Parents(p) == {SubSeq(p, 1, k) : k \in 0..(Len(p) - 1)}

IsPrefix(p, q) == Len(p) <= Len(q) /\ SubSeq(q, 1, Len(p)) = p

\* PurePath.relative_to(base), for a path under base
RelativeTo(p, base) == SubSeq(p, Len(base) + 1, Len(p))

\* PurePath.name; "" for Path(".")
BaseName(p) == IF p = <<>> THEN <<>> ELSE p[Len(p)]

----------------------------------------------------------------------------
\* Names that occur in the model
IndexHtml == <<"index", ".", "html">>
NoJekyll  == <<".", "nojekyll">>
CurDir    == <<".">>
ParDir    == <<".", ".">>
HtmlExt   == <<".", "html">>

A_md     == <<"a", ".", "md">>
A_txt    == <<"a", ".", "txt">>
B_MD     == <<"b", ".", "MD">>
Index_md == <<"index", ".", "md">>
N_png    == <<"n", ".", "png">>
H_md     == <<".", "h", ".", "md">>
O_md     == <<"o", ".", "md">>
Guide    == <<"guide">>
Git      == <<".", "git">>
A_html   == <<"a", ".", "html">>
Docs     == <<"docs">>
SrcName  == <<"s">>
Old_html == <<"old", ".", "html">>

\* sorted(): the names above in the order of Python's string comparison
NameOrder == <<Git, H_md, NoJekyll, A_html, A_md, A_txt, B_MD, Docs, Guide,
               Index_md, N_png, O_md, Old_html, SrcName>>

Sorted(S) == SelectSeq(NameOrder, LAMBDA n : n \in S)

----------------------------------------------------------------------------
\* The file system: a function from the paths that exist to their entries.
\* The working directory <<>> always exists.
DirEntry == [type |-> "dir"]

IsDir(f, p)  == p = <<>> \/ (p \in DOMAIN f /\ f[p].type = "dir")
IsFile(f, p) == p \in DOMAIN f /\ f[p].type # "dir"
Exists(f, p) == p = <<>> \/ p \in DOMAIN f

\* os.scandir / Path.iterdir: the immediate children of p
Children(f, p) == {q \in DOMAIN f : Len(q) = Len(p) + 1 /\ IsPrefix(p, q)}

ChildDirs(f, p)  == {q[Len(q)] : q \in {c \in Children(f, p) : IsDir(f, c)}}
ChildFiles(f, p) == {q[Len(q)] : q \in {c \in Children(f, p) : IsFile(f, c)}}

Put(f, p, e) == [q \in DOMAIN f \cup {p} |-> IF q = p THEN e ELSE f[q]]

\* shutil.rmtree(p)
RmTree(f, p) == [q \in {r \in DOMAIN f : ~IsPrefix(p, r)} |-> f[q]]

\* Path.mkdir(parents=True, exist_ok=True) raises when a component of p is a file
MkdirFails(f, p) == \E k \in 1..Len(p) : IsFile(f, SubSeq(p, 1, k))

MkdirParents(f, p) ==
    [q \in DOMAIN f \cup {SubSeq(p, 1, k) : k \in 1..Len(p)} |->
        IF q \in DOMAIN f THEN f[q] ELSE DirEntry]

----------------------------------------------------------------------------
\* FastSiteGenerator helpers

Repeat(x, n) == [i \in 1..n |-> x]

\* variant: the depth is taken one too small
get_relative_path_to_root_short(current_path) ==
    IF current_path = <<>> THEN <<CurDir>>
    ELSE LET depth == Len(current_path) - 1
         IN  IF depth > 0 THEN Repeat(ParDir, depth) ELSE <<CurDir>>

\* get_relative_path_to_root(current_path): "." for the root, else one ".."
\* per part, joined by "/"
get_relative_path_to_root(current_path) ==
    IF current_path = <<>> THEN <<CurDir>>
    ELSE LET depth == Len(current_path)
         IN  IF depth > 0 THEN Repeat(ParDir, depth) ELSE <<CurDir>>

\* variant: levels_up is not reduced by one
BreadcrumbLinkOffByOne(parts, i) ==
    LET levels_up == Len(parts) - (i - 1)
    IN  IF levels_up > 0 THEN Repeat(ParDir, levels_up) \o <<IndexHtml>>
        ELSE <<IndexHtml>>

\* the href of the breadcrumb entry of parts[i] (i is 1-based here)
BreadcrumbLink(parts, i) ==
    LET levels_up == Len(parts) - (i - 1) - 1
    IN  IF levels_up > 0 THEN Repeat(ParDir, levels_up) \o <<IndexHtml>>
        ELSE <<IndexHtml>>

\* create_breadcrumb(current_path): the Home entry, then one entry per part
create_breadcrumb(current_path) ==
    LET path_to_root == get_relative_path_to_root(current_path)
        home == [label |-> <<"Home">>, href |-> path_to_root \o <<IndexHtml>>]
    IN  IF current_path = <<>> THEN <<home>>
        ELSE <<home>> \o [i \in 1..Len(current_path) |->
                 [label |-> current_path[i],
                  href  |-> BreadcrumbLink(current_path, i)]]

\* process_markdown(md_path, relative_path): the page of one source file.
\* The converted text is identified by the file it was read from.
process_markdown(md_path, relative_path) ==
    LET parent_path == Parent(relative_path)
    IN  [type       |-> "page",
         owner      |-> relative_path,
         title      |-> Stem(BaseName(md_path)),
         breadcrumb |-> create_breadcrumb(parent_path),
         home_path  |-> get_relative_path_to_root(parent_path) \o <<IndexHtml>>]

\* file.lower().endswith((".md", ".txt"))
Eligible(file) ==
    \/ EndsWith(Lower(file), <<".", "md">>)
    \/ EndsWith(Lower(file), <<".", "txt">>)

\* item.suffix.lower() in [".md", ".txt"]
ListedSuffix(name) == Lower(Suffix(name)) \in {<<".", "md">>, <<".", "txt">>}

\* create_directory_listing: the items the loop skips
ListingSkips(name) == StartsWithDot(name) \/ name = BaseName(output_dir)

\* create_directory_listing(dir_path, relative_path): the index page
create_directory_listing(dir_path, relative_path) ==
    LET items == Sorted(ChildDirs(fs, dir_path) \cup ChildFiles(fs, dir_path))
        isdir(n) == IsDir(fs, dir_path \o <<n>>)
        dnames == SelectSeq(items, LAMBDA n : ~ListingSkips(n) /\ isdir(n))
        fnames == SelectSeq(items,
                    LAMBDA n : ~ListingSkips(n) /\ ~isdir(n) /\ ListedSuffix(n))
        dirs == [i \in 1..Len(dnames) |->
                   [kind |-> "dir", name |-> dnames[i],
                    path |-> <<dnames[i], IndexHtml>>]]
        files_ == [i \in 1..Len(fnames) |->
                   [kind |-> "file", name |-> fnames[i],
                    path |-> <<Stem(fnames[i]) \o HtmlExt>>]]
    IN  [type       |-> "index",
         owner      |-> relative_path,
         cards      |-> dirs \o files_,
         breadcrumb |-> create_breadcrumb(relative_path),
         home_path  |-> get_relative_path_to_root(relative_path) \o <<IndexHtml>>]

\* variant: the hidden-directory test is missing
SkipPartOutputOnly(part) == part = BaseName(output_dir)

\* generate_site: "Skip hidden directories and output directory"
SkipPart(part) == StartsWithDot(part) \/ part = BaseName(output_dir)

SkipByParts(relative_path) ==
    \E i \in 1..Len(relative_path) : SkipPart(relative_path[i])

\* generate_site: "Skip the output directory itself"
SkipOutput(root) == root = output_dir \/ output_dir \in Parents(root)

\* generate_site: output_dir_path and output_file
OutputDirPath(relative_path) ==
    IF relative_path # <<>> THEN output_dir \o relative_path ELSE output_dir

\* variant: ".html" is appended to the whole file name
OutputFileKeepExt(output_dir_path, file) == output_dir_path \o <<file \o HtmlExt>>

OutputFile(output_dir_path, file) == output_dir_path \o <<Stem(file) \o HtmlExt>>

\* variant: the output directory is not removed first
CleanOutputKeep(f) ==
    Put(Put(f, output_dir, DirEntry),
        output_dir \o <<NoJekyll>>, [type |-> "marker"])

\* generate_site: "Clean output directory" and the .nojekyll marker
CleanOutput(f) ==
    LET purged == IF Exists(f, output_dir) THEN RmTree(f, output_dir) ELSE f
    IN  Put(Put(purged, output_dir, DirEntry),
            output_dir \o <<NoJekyll>>, [type |-> "marker"])

----------------------------------------------------------------------------
\* The source trees and placements the runs start from

F(p) == [path |-> p, type |-> "src"]
D(p) == [path |-> p, type |-> "dir"]

\* nodes a source tree may hold, relative to the source root
SourceNodes ==
    { F(<<A_md>>), F(<<A_txt>>), F(<<B_MD>>), F(<<Index_md>>), F(<<N_png>>),
      F(<<H_md>>), F(<<O_md>>),
      D(<<Guide>>), F(<<Guide, A_md>>), D(<<Guide, Docs>>),
      F(<<Guide, Docs, A_md>>),
      D(<<Git>>), F(<<Git, A_md>>), D(<<Git, Guide>>), F(<<Git, Guide, A_md>>),
      D(<<A_html>>) }

ParentClosed(T) ==
    \A n \in T : Len(n.path) > 1 => D(Parent(n.path)) \in T

SourceTrees ==
    {T \in SUBSET SourceNodes : Cardinality(T) <= MaxNodes /\ ParentClosed(T)}

\* what the output directory holds before the run
StaleNodes ==
    { [exists |-> FALSE, nodes |-> {}],
      [exists |-> TRUE,  nodes |-> {[path |-> <<Old_html>>, type |-> "old"]}],
      [exists |-> TRUE,  nodes |-> {[path |-> <<Old_html>>, type |-> "old"],
                                    D(<<Guide>>)}] }

\* source_dir and output_dir: output inside source (the defaults), disjoint,
\* source inside output, equal, and an output directory named like a document
Placements ==
    { [src |-> <<>>,               out |-> <<Docs>>],
      [src |-> <<SrcName>>,        out |-> <<Docs>>],
      [src |-> <<Docs, SrcName>>,  out |-> <<Docs>>],
      [src |-> <<Docs>>,           out |-> <<Docs>>],
      [src |-> <<SrcName>>,        out |-> <<O_md>>] }

InitialFs(pl, T, S) ==
    LET srcdirs == {SubSeq(pl.src, 1, k) : k \in 1..Len(pl.src)}
        srcs    == {pl.src \o n.path : n \in T}
        stale   == IF S.exists
                   THEN {pl.out} \cup {pl.out \o n.path : n \in S.nodes}
                   ELSE {}
        typeOf(p) ==
            IF p \in srcs
            THEN (CHOOSE n \in T : pl.src \o n.path = p).type
            ELSE IF p \in srcdirs \/ p = pl.out THEN "dir"
            ELSE (CHOOSE n \in S.nodes : pl.out \o n.path = p).type
    IN  [p \in srcdirs \cup srcs \cup stale |-> [type |-> typeOf(p)]]

Init ==
    \E pl \in Placements, T \in SourceTrees, S \in StaleNodes :
        /\ source_dir = pl.src
        /\ output_dir = pl.out
        /\ fs = InitialFs(pl, T, S)
        /\ fs0 = fs
        /\ pc = "new"
        /\ walk = <<>>
        /\ root_path = <<>>
        /\ files = {}
        /\ visited = {}
        /\ attempted = {}
        /\ failed = {}
        /\ lfailed = {}
        /\ writes = {}
        /\ path_a = <<>>
        /\ path_b = <<>>
        /\ root_a = <<>>
        /\ root_b = <<>>
        /\ trail = <<>>

----------------------------------------------------------------------------
\* FastSiteGenerator.__init__: self.output_dir.mkdir(exist_ok=True)
Construct ==
    /\ pc = "new"
    /\ IF IsFile(fs, output_dir) \/ ~IsDir(fs, Parent(output_dir))
       THEN pc' = "fatal" /\ fs' = fs
       ELSE /\ pc' = "ready"
            /\ fs' = IF Exists(fs, output_dir) THEN fs
                     ELSE Put(fs, output_dir, DirEntry)
    /\ UNCHANGED pure
    /\ UNCHANGED <<source_dir, output_dir, fs0, walk, root_path, files,
                   visited, attempted, failed, lfailed, writes>>

\* generate_site, up to the start of os.walk(self.source_dir)
Purge ==
    /\ pc = "ready"
    /\ fs' = CleanOutput(fs)
    /\ walk' = <<{source_dir}>>
    /\ pc' = "walk"
    /\ UNCHANGED pure
    /\ UNCHANGED <<source_dir, output_dir, fs0, root_path, files,
                   visited, attempted, failed, lfailed, writes>>

\* os.walk keeps, per level, the directories still to walk; depth first,
\* siblings in the order os.scandir happens to return them
Norm(w) == SelectSeq(w, LAMBDA S : S # {})

Pop(w, root) == Norm(<<Head(w) \ {root}>> \o Tail(w))

Descend(w, root) ==
    Norm(<<{root \o <<d>> : d \in ChildDirs(fs, root)}>> \o Pop(w, root))

RelativePath(root) ==
    IF root = source_dir THEN <<>> ELSE RelativeTo(root, source_dir)

Skipped(root) == SkipByParts(RelativePath(root)) \/ SkipOutput(root)

\* os.walk: a directory that cannot be scanned yields nothing
WalkGone ==
    /\ pc = "walk" /\ walk # <<>>
    /\ \E root \in Head(walk) :
        /\ ~IsDir(fs, root)
        /\ walk' = Pop(walk, root)
    /\ UNCHANGED pure
    /\ UNCHANGED <<source_dir, output_dir, fs, fs0, pc, root_path, files,
                   visited, attempted, failed, lfailed, writes>>

\* loop body, the two "continue" filters
WalkSkip ==
    /\ pc = "walk" /\ walk # <<>>
    /\ \E root \in Head(walk) :
        /\ IsDir(fs, root)
        /\ Skipped(root)
        /\ walk' = Descend(walk, root)
    /\ UNCHANGED pure
    /\ UNCHANGED <<source_dir, output_dir, fs, fs0, pc, root_path, files,
                   visited, attempted, failed, lfailed, writes>>

\* loop body, output_dir_path.mkdir(parents=True, exist_ok=True) raises:
\* the exception leaves generate_site
WalkAbort ==
    /\ pc = "walk" /\ walk # <<>>
    /\ \E root \in Head(walk) :
        /\ IsDir(fs, root)
        /\ ~Skipped(root)
        /\ MkdirFails(fs, OutputDirPath(RelativePath(root)))
        /\ root_path' = root
        /\ walk' = Descend(walk, root)
    /\ pc' = "aborted"
    /\ UNCHANGED pure
    /\ UNCHANGED <<source_dir, output_dir, fs, fs0, files,
                   visited, attempted, failed, lfailed, writes>>

\* loop body, the mirrored directory is created and the files loop starts
WalkEnter ==
    /\ pc = "walk" /\ walk # <<>>
    /\ \E root \in Head(walk) :
        /\ IsDir(fs, root)
        /\ ~Skipped(root)
        /\ ~MkdirFails(fs, OutputDirPath(RelativePath(root)))
        /\ fs' = MkdirParents(fs, OutputDirPath(RelativePath(root)))
        /\ root_path' = root
        /\ files' = ChildFiles(fs, root)
        /\ visited' = visited \cup {RelativePath(root)}
        /\ walk' = Descend(walk, root)
    /\ pc' = "files"
    /\ UNCHANGED pure
    /\ UNCHANGED <<source_dir, output_dir, fs0, attempted, failed, lfailed,
                   writes>>

RelFilePath(file) ==
    IF RelativePath(root_path) # <<>> THEN RelativePath(root_path) \o <<file>>
    ELSE <<file>>

\* the walker converts this file
Converts(file) == ~StartsWithDot(file) /\ Eligible(file)

\* files loop: a hidden file or one that is neither .md nor .txt
FileSkip ==
    /\ pc = "files"
    /\ \E file \in files :
        /\ ~Converts(file)
        /\ files' = files \ {file}
    /\ UNCHANGED pure
    /\ UNCHANGED <<source_dir, output_dir, fs, fs0, pc, walk, root_path,
                   visited, attempted, failed, lfailed, writes>>

\* files loop: the page of one file is built and written
FileOk ==
    /\ pc = "files"
    /\ \E file \in files :
        LET output_file ==
                OutputFile(OutputDirPath(RelativePath(root_path)), file)
        IN  /\ Converts(file)
            /\ ~IsDir(fs, output_file)
            /\ fs' = Put(fs, output_file,
                         process_markdown(root_path \o <<file>>, RelFilePath(file)))
            /\ writes' = writes \cup
                  {[path |-> output_file, kind |-> "file",
                    node |-> RelFilePath(file)]}
            /\ attempted' = attempted \cup {RelFilePath(file)}
            /\ files' = files \ {file}
    /\ UNCHANGED pure
    /\ UNCHANGED <<source_dir, output_dir, fs0, pc, walk, root_path,
                   visited, failed, lfailed>>

\* variant: an error ends the files loop of the directory
AfterFileErrorBreak(rest) == {}

\* what the files loop goes on with after "except Exception"
AfterFileError(rest) == rest

\* files loop: reading, converting or writing raises; the error is printed
FileErr ==
    /\ pc = "files"
    /\ \E file \in files :
        /\ Converts(file)
        /\ attempted' = attempted \cup {RelFilePath(file)}
        /\ failed' = failed \cup {RelFilePath(file)}
        /\ files' = AfterFileError(files \ {file})
    /\ UNCHANGED pure
    /\ UNCHANGED <<source_dir, output_dir, fs, fs0, pc, walk, root_path,
                   visited, lfailed, writes>>

\* "Create directory listing": index.html is built and written
ListOk ==
    /\ pc = "files" /\ files = {}
    /\ LET relative_path == RelativePath(root_path)
           index_file == OutputDirPath(relative_path) \o <<IndexHtml>>
       IN  /\ ~IsDir(fs, index_file)
           /\ fs' = Put(fs, index_file,
                        create_directory_listing(root_path, relative_path))
           /\ writes' = writes \cup
                 {[path |-> index_file, kind |-> "dir", node |-> relative_path]}
    /\ pc' = "walk"
    /\ UNCHANGED pure
    /\ UNCHANGED <<source_dir, output_dir, fs0, walk, root_path, files,
                   visited, attempted, failed, lfailed>>

\* "Create directory listing" raises; the error is printed
ListErr ==
    /\ pc = "files" /\ files = {}
    /\ lfailed' = lfailed \cup {RelativePath(root_path)}
    /\ pc' = "walk"
    /\ UNCHANGED pure
    /\ UNCHANGED <<source_dir, output_dir, fs, fs0, walk, root_path, files,
                   visited, attempted, failed, writes>>

\* os.walk is exhausted: the summary is printed
Finish ==
    /\ pc = "walk" /\ walk = <<>>
    /\ pc' = "done"
    /\ UNCHANGED pure
    /\ UNCHANGED <<source_dir, output_dir, fs, fs0, walk, root_path, files,
                   visited, attempted, failed, lfailed, writes>>

Next ==
    \/ Construct
    \/ Purge
    \/ WalkGone
    \/ WalkSkip
    \/ WalkAbort
    \/ WalkEnter
    \/ FileSkip
    \/ FileOk
    \/ FileErr
    \/ ListOk
    \/ ListErr
    \/ Finish

Spec == Init /\ [][Next]_vars

----------------------------------------------------------------------------
\* The path helpers called on their own, on every relative path of up to
\* MaxDepth parts and on a second path to compare with

PathNames == {Guide, Docs, SrcName}

RECURSIVE PathsOfDepth(_)
PathsOfDepth(d) ==
    IF d = 0 THEN {<<>>}
    ELSE {Append(p, n) : p \in PathsOfDepth(d - 1), n \in PathNames}

RelativePaths == UNION {PathsOfDepth(d) : d \in 0..MaxDepth}

PathInit ==
    /\ path_a \in RelativePaths
    /\ path_b \in RelativePaths
    /\ root_a = <<>>
    /\ root_b = <<>>
    /\ trail = <<>>
    /\ source_dir = <<>>
    /\ output_dir = <<Docs>>
    /\ fs = <<>>
    /\ fs0 = <<>>
    /\ pc = "helpers"
    /\ walk = <<>>
    /\ root_path = <<>>
    /\ files = {}
    /\ visited = {}
    /\ attempted = {}
    /\ failed = {}
    /\ lfailed = {}
    /\ writes = {}

\* get_relative_path_to_root(path_a)
CallPathToRoot ==
    /\ root_a = <<>>
    /\ root_a' = get_relative_path_to_root(path_a)
    /\ UNCHANGED <<path_a, path_b, root_b, trail>>
    /\ UNCHANGED site

\* get_relative_path_to_root(path_b)
CallPathToRootOther ==
    /\ root_b = <<>>
    /\ root_b' = get_relative_path_to_root(path_b)
    /\ UNCHANGED <<path_a, path_b, root_a, trail>>
    /\ UNCHANGED site

\* create_breadcrumb(path_a)
CallCreateBreadcrumb ==
    /\ trail = <<>>
    /\ trail' = create_breadcrumb(path_a)
    /\ UNCHANGED <<path_a, path_b, root_a, root_b>>
    /\ UNCHANGED site

PathNext ==
    \/ CallPathToRoot
    \/ CallPathToRootOther
    \/ CallCreateBreadcrumb

PathSpec == PathInit /\ [][PathNext]_vars

----------------------------------------------------------------------------
\* Vocabulary of the properties

Terminated == pc \in {"done", "aborted"}
Purged     == pc \in {"walk", "files", "done", "aborted"}

Out(rel) == output_dir \o rel

\* the source tree as it was before the run, relative to source_dir
SourcePaths0 == {RelativeTo(p, source_dir) :
                    p \in {q \in DOMAIN fs0 : IsPrefix(source_dir, q)}}
SourceDirs0 ==
    {d \in SourcePaths0 \cup {<<>>} : IsDir(fs0, source_dir \o d)}
SourceFilesIn0(d) == ChildFiles(fs0, source_dir \o d)

\* an eligible file: non-hidden name, extension .md or .txt in any case
EligibleName(n) ==
    /\ n[1] # "."
    /\ Len(n) >= 3
    /\ n[Len(n) - 1] = "."
    /\ n[Len(n)] \in {"md", "MD", "txt", "TXT"}

\* the mirrored page path of a file: same base name, extension .html
PagePath(d, n) == Out(d) \o <<SubSeq(n, 1, Len(n) - 2) \o <<".", "html">>>>
IndexPath(d)   == Out(d) \o <<IndexHtml>>

HasSegment(p, P(_)) == \E i \in 1..Len(p) : P(p[i])

\* what lies in the output directory, relative to it
OutputPaths == {RelativeTo(p, output_dir) :
                   p \in {q \in DOMAIN fs : IsPrefix(output_dir, q)
                                            /\ q # output_dir}}
\* the generated pages and mirrored directories (all but the marker)
GeneratedPaths == {r \in OutputPaths : fs[Out(r)].type # "marker"}
PagePaths == {r \in OutputPaths : fs[Out(r)].type \in {"page", "index"}}

\* every href and label of a page
LinksOf(page) ==
    {page.home_path}
    \cup {page.breadcrumb[i].href : i \in 1..Len(page.breadcrumb)}
    \cup (IF page.type = "index"
          THEN {page.cards[i].path : i \in 1..Len(page.cards)} ELSE {})
LabelsOf(page) ==
    {page.breadcrumb[i].label : i \in 1..Len(page.breadcrumb)}
    \cup (IF page.type = "index"
          THEN {page.cards[i].name : i \in 1..Len(page.cards)} ELSE {})

\* a link resolved from the directory loc of the output tree; a link that
\* climbs above the output root resolves to no page
Outside == <<<<"outside">>>>
RECURSIVE Resolve(_, _)
Resolve(loc, href) ==
    IF href = <<>> THEN loc
    ELSE IF loc = Outside THEN Outside
    ELSE IF Head(href) = CurDir THEN Resolve(loc, Tail(href))
    ELSE IF Head(href) = ParDir
         THEN IF loc = <<>> THEN Outside ELSE Resolve(Parent(loc), Tail(href))
    ELSE Resolve(loc \o <<Head(href)>>, Tail(href))

IsIndexOf(r, d) ==
    /\ Out(r) \in DOMAIN fs
    /\ fs[Out(r)].type = "index"
    /\ fs[Out(r)].owner = d
IsPageOf(r, f) ==
    /\ Out(r) \in DOMAIN fs
    /\ fs[Out(r)].type = "page"
    /\ fs[Out(r)].owner = f

----------------------------------------------------------------------------
\* C1 (as stated): after generate_site completes, every directory the walk
\* visited has an index.html at its mirrored path, and every eligible file of
\* a visited directory whose conversion and write did not fail has a page at
\* the mirrored path, same base name, extension .html.
C1_AsStated ==
    pc = "done" =>
        \A d \in visited :
            /\ IsFile(fs, IndexPath(d))
            /\ \A n \in SourceFilesIn0(d) :
                  EligibleName(n) /\ d \o <<n>> \notin failed
                      => IsFile(fs, PagePath(d, n))

\* C1 (amended): as C1, for the index.html of every visited directory whose
\* listing was built and written without a reported error.
C1_RoundTrip ==
    pc = "done" =>
        \A d \in visited :
            /\ d \notin lfailed => IsFile(fs, IndexPath(d))
            /\ \A n \in SourceFilesIn0(d) :
                  EligibleName(n) /\ d \o <<n>> \notin failed
                      => IsFile(fs, PagePath(d, n))

C1_Witness ==
    /\ pc = "done"
    /\ <<Guide>> \in visited
    /\ <<>> \in lfailed
    /\ <<Guide, A_md>> \in attempted \ failed
    /\ IsFile(fs, PagePath(<<Guide>>, A_md))
    /\ IsFile(fs, IndexPath(<<Guide>>))

\* C2: within one run no output path is written by two distinct source nodes.
C2_WrittenOnce ==
    \A w1 \in writes : \A w2 \in writes : w1.path = w2.path => w1 = w2

\* C3: once the output root is recreated, no generated page or mirrored
\* directory has a path segment equal to the output directory's name, no
\* hidden segment of the source tree is a segment of such a path, and none is
\* a label or a link segment of a generated page.
HiddenSourceNames ==
    {n \in UNION {{p[i] : i \in 1..Len(p)} : p \in SourcePaths0} :
        StartsWithDot(n)}

C4_FailureIsolated ==
    (Terminated /\ Cardinality(failed) = 1 /\ lfailed = {}) =>
        \A d \in visited :
            /\ IsFile(fs, IndexPath(d))
            /\ \A n \in SourceFilesIn0(d) :
                  EligibleName(n) /\ d \o <<n>> \notin failed
                      => IsFile(fs, PagePath(d, n))

C4_Witness ==
    /\ pc = "done"
    /\ failed = {<<A_md>>}
    /\ lfailed = {}
    /\ IsPageOf(<<<<"b", ".", "html">>>>, <<B_MD>>)
    /\ ~Exists(fs, Out(<<A_html>>))
    /\ IsIndexOf(<<IndexHtml>>, <<>>)
    /\ IsIndexOf(<<Guide, IndexHtml>>, <<Guide>>)

\* C5: once the output root is recreated, no failure met while a file or a
\* directory is handled ends generate_site before the walk is finished.
C5_NeverAborts == pc # "aborted"

\* C6: at the end of a run without reported error, every link of every
\* generated page resolves, from the page's own directory, to the page it is
\* meant for: Home to the root index, the breadcrumb entry of the i-th part
\* to the index of the directory made of the first i parts, a directory card
\* to the subdirectory's index, a file card to that file's content page.
LinksResolve(r) ==
    LET page == fs[Out(r)]
        loc  == Parent(r)
    IN  /\ IsIndexOf(Resolve(loc, page.home_path), <<>>)
        /\ \A i \in 2..Len(page.breadcrumb) :
              IsIndexOf(Resolve(loc, page.breadcrumb[i].href),
                        SubSeq(loc, 1, i - 1))
        /\ page.type = "index" =>
              \A i \in 1..Len(page.cards) :
                 LET c == page.cards[i]
                 IN  IF c.kind = "dir"
                     THEN IsIndexOf(Resolve(loc, c.path), loc \o <<c.name>>)
                     ELSE IsPageOf(Resolve(loc, c.path), loc \o <<c.name>>)

C6_LinksResolve ==
    (pc = "done" /\ failed = {} /\ lfailed = {}) =>
        \A r \in PagePaths : LinksResolve(r)

\* C7: the output directory is removed and recreated before anything is
\* written, so from then on it holds only the .nojekyll marker and what this
\* run wrote or mirrored; nothing of its former content is left.
MirroredDirs ==
    UNION {{Out(SubSeq(d, 1, k)) : k \in 1..Len(d)} : d \in visited}

C7_FreshOutput ==
    /\ ~Purged => writes = {} /\ visited = {}
    /\ Purged =>
          \A r \in OutputPaths :
              \/ r = <<NoJekyll>> /\ fs[Out(r)].type = "marker"
              \/ Out(r) \in {w.path : w \in writes}
                    /\ fs[Out(r)].type \in {"page", "index"}
              \/ Out(r) \in MirroredDirs /\ fs[Out(r)].type = "dir"

C7_Witness ==
    /\ pc = "done"
    /\ Out(<<Old_html>>) \in DOMAIN fs0
    /\ Out(<<Guide>>) \in DOMAIN fs0
    /\ Out(<<Old_html>>) \notin DOMAIN fs
    /\ IsIndexOf(<<Guide, IndexHtml>>, <<Guide>>)

\* C8: a run changes the file system only inside the output directory, and
\* every source node that is not an excluded node is still there, unchanged.
MirroredNode(rel) ==
    /\ rel # <<>>
    /\ ~HasSegment(rel, LAMBDA x : StartsWithDot(x) \/ x = BaseName(output_dir))

C8_SourceUntouched ==
    /\ \A p \in DOMAIN fs \cup DOMAIN fs0 :
          (p \notin DOMAIN fs \/ p \notin DOMAIN fs0 \/ fs[p] # fs0[p])
              => IsPrefix(output_dir, p)
    /\ \A rel \in SourcePaths0 :
          MirroredNode(rel) =>
              /\ source_dir \o rel \in DOMAIN fs
              /\ fs[source_dir \o rel] = fs0[source_dir \o rel]

\* C9: at the end of a run without reported error, a source directory is
\* left out only if it or an ancestor under the source root is hidden, or it
\* is the output directory or lies inside it; every other source directory,
\* the root included, was visited and has its index.html.
HiddenPath(d) == HasSegment(d, LAMBDA x : StartsWithDot(x))
IsOrInsideOutput(d) == IsPrefix(output_dir, source_dir \o d)

C9_ExcludedOnly ==
    (pc = "done" /\ failed = {} /\ lfailed = {}) =>
        \A d \in SourceDirs0 :
            IF HiddenPath(d) \/ IsOrInsideOutput(d)
            THEN d \notin visited
            ELSE d \in visited /\ IsIndexOf(d \o <<IndexHtml>>, d)

\* C10: the listing written for a visited directory has exactly one card per
\* visited subdirectory and per eligible file, no other card, its file cards
\* are the files the walker attempted in that directory, and the directory
\* cards come first.
CardNames(page, k) ==
    {page.cards[i].name : i \in {j \in 1..Len(page.cards) : page.cards[j].kind = k}}

C10_ListingCards ==
    pc = "done" =>
        \A d \in visited \ lfailed :
            LET page == fs[IndexPath(d)]
                kids == ChildDirs(fs0, source_dir \o d)
                docs == {n \in SourceFilesIn0(d) : EligibleName(n)}
            IN  /\ page.type = "index" /\ page.owner = d
                /\ CardNames(page, "dir") = {n \in kids : d \o <<n>> \in visited}
                /\ CardNames(page, "file") = docs
                /\ CardNames(page, "file") =
                      {n \in SourceFilesIn0(d) : d \o <<n>> \in attempted}
                /\ Len(page.cards) =
                      Cardinality(CardNames(page, "dir"))
                      + Cardinality(CardNames(page, "file"))
                /\ \A i \in 1..Len(page.cards) : \A j \in 1..Len(page.cards) :
                      page.cards[i].kind = "file" /\ page.cards[j].kind = "dir"
                          => j < i

\* k parent-directory markers, joined by "/"
ParentMarkers(k) == [j \in 1..k |-> <<".", ".">>]

\* the prefix from a node of depth d to the root
PrefixOfDepth(d) == IF d = 0 THEN <<<<".">>>> ELSE ParentMarkers(d)

\* C11: for the relative path [s0..sN], create_breadcrumb yields depth + 1
\* entries: the Home entry linking to the root prefix of that depth followed
\* by index.html, then the entry of each si in order, labelled si and linking
\* to N - i parent markers followed by index.html, plain index.html when
\* N - i is zero; the last label is the node's own name, and the root has the
\* Home entry alone.
C11_BreadcrumbTrail ==
    trail # <<>> =>
        LET depth == Len(path_a)
            N == depth - 1
        IN  /\ Len(trail) = depth + 1
            /\ trail[1].label = <<"Home">>
            /\ trail[1].href = PrefixOfDepth(depth) \o <<IndexHtml>>
            /\ \A i \in 0..N :
                  /\ trail[i + 2].label = path_a[i + 1]
                  /\ trail[i + 2].href =
                        IF N - i = 0 THEN <<IndexHtml>>
                        ELSE ParentMarkers(N - i) \o <<IndexHtml>>
            /\ depth > 0 => trail[depth + 1].label = path_a[depth]
            /\ depth = 0 => Len(trail) = 1

C11_Witness ==
    /\ path_a = <<Guide, Docs, SrcName>>
    /\ Len(trail) = 4
    /\ trail[2].href = <<ParDir, ParDir, IndexHtml>>
    /\ trail[4].label = SrcName
    /\ trail[4].href = <<IndexHtml>>

\* C12: get_relative_path_to_root returns "." for a path of no part and d
\* ".." markers for a path of d > 0 parts, so two paths of equal depth get
\* the same prefix whatever their names.
C12_DepthOnly ==
    /\ root_a # <<>> => root_a = PrefixOfDepth(Len(path_a))
    /\ root_b # <<>> => root_b = PrefixOfDepth(Len(path_b))
    /\ (root_a # <<>> /\ root_b # <<>> /\ Len(path_a) = Len(path_b))
          => root_a = root_b

C12_Witness ==
    /\ path_a = <<Guide, Docs>>
    /\ path_b = <<SrcName, Guide>>
    /\ root_a = <<ParDir, ParDir>>
    /\ root_b = root_a

====
